---- MODULE Spec2Model ----
(***************************************************************************)
(* Continuity engine of backand/main.py: the streaming-connection loop     *)
(* (bybit_websocket_loop), the hourly maintenance loop (periodic_cleanup), *)
(* the historical reconciliation loop (historical_data_loader) and the     *)
(* watchlist mutations that run beside them.                               *)
(***************************************************************************)
EXTENDS Integers, Sequences, FiniteSets, TLC

(***************************************************************************)
(* Bounds of the model and constants of the program.                       *)
(***************************************************************************)
\* largest max_reconnect_attempts a run is started with
MaxAttemptsBound == 3

\* values of BybitWebSocketManager.reconnect_delay (seconds) a run is started with
ReconnectDelays == {5, 25}

\* main.py:274, the cap of the backoff delay in seconds
max_delay_cap == 60

\* main.py:364, the hourly sleep of periodic_cleanup in seconds
CLEANUP_SLEEP == 3600

\* main.py:353, the sleep after a cycle that raised no cycle-level error, in seconds
CYCLE_SLEEP == 1800

\* main.py:357, the sleep after a cycle-level error, in seconds
ERROR_SLEEP == 300

\* main.py:304, the integrity percentage below which a symbol is backfilled
INTEGRITY_THRESHOLD == 90

\* main.py:314, hours fetched by one get_kline_data call
batch_size_hours == 24

\* symbols that can be on the watchlist
Symbols == {"A", "B", "FOOUSDT"}

\* longest watchlist of a run
MaxWatch == 2

\* most records one get_kline_data call returns
MaxKlines == 2

\* values the .env file gives ANALYSIS_HOURS and OFFSET_MINUTES
HoursValues == {-1, 0, 1, 50}
OffsetValues == {0, 40}

\* values of datetime.now() in epoch milliseconds (main.py:309)
NowValues == {1000000000, 1000059999}

\* integrity_percentage values check_data_integrity reports
PctValues == {89, 90, 100}

\* callbacks that can be registered for settings changes (main.py:227 registers the first)
Callbacks == {"update_all_components_settings", "other_callback"}

\* longest list of registered callbacks of a run
MaxCallbacks == 2

\* most add_to_watchlist and remove_from_watchlist calls in flight at once
MaxRequests == 2

\* seconds alert_manager.cleanup_old_data() takes before it returns or raises
CleanupDurations == {0, 7}

Min2(a, b) == IF a <= b THEN a ELSE b

Range(q) == {q[i] : i \in 1..Len(q)}

\* the first position recorded: first, unless none was recorded yet (0)
FirstOf(first, i) == IF first = 0 THEN i ELSE first

VARIABLES
    \* ---- BybitWebSocketManager fields used by bybit_websocket_loop
    is_running,              \* bybit_websocket.is_running
    reconnect_attempts,      \* bybit_websocket.reconnect_attempts
    reconnect_delay,         \* bybit_websocket.reconnect_delay
    max_reconnect_attempts,  \* bybit_websocket.max_reconnect_attempts
    \* ---- position of bybit_websocket_loop
    wsPc,                    \* "while" | "connect" | "connected" | "sleep" | "exit"
    delay,                   \* the local `delay` of the pending asyncio.sleep, 0 if none
    \* ---- history of the feed loop (observation only)
    consecFails,             \* connect() calls that raised with is_running true since connect() last returned
    failsSinceConnected,     \* the same count since a connection was last established
    delays,                  \* delays slept since reconnect_attempts was last 0, in order
    \* ---- lifespan
    shutdownStarted,         \* lifespan passed its yield and cleared is_running
    shutPc,                  \* position of lifespan after its yield: "yield" | "flag" | "close" | "api" | "filter" | "db" | "done"
    released,                \* resources lifespan has released, in the order of their release
    lastEnd,                 \* how the last connect() call ended and whether a backoff sleep
                             \* followed: "none" | "returned" | "raised" | "slept"
    \* ---- position and history of periodic_cleanup
    cleanPc,                 \* "sleep" | "cleanup"
    slept,                   \* seconds of the sleep that opened the current pass
    cleanupCalls,            \* alert_manager.cleanup_old_data() calls in the current/last pass
    retentionReads,          \* get_setting('DATA_RETENTION_HOURS') reads in the current/last pass
    passRaised,              \* the current/last pass ended in the except branch
    prevRaised,              \* the pass before the current/last one ended in the except branch
    passParity,              \* number of passes begun, modulo 2
    passesBegun,             \* at least one pass has begun
    elapsed,                 \* seconds from the start of the current/last pass to the end of its cleanup step
    startGap,                \* seconds between the starts of the last two passes, 0 before the second pass
    \* ---- collaborators' state seen by the reconciliation loop and the watchlist API
    store_watchlist,         \* the watchlist table behind db_queries, in get_watchlist() order
    trading_pairs,           \* bybit_websocket.trading_pairs
    subscribed,              \* symbols the feed is subscribed to
    hookIssued,              \* <<call, symbols>> of the feed calls the last run of on_pairs_updated issued
    removeCalled,            \* symbol of the last DELETE /api/watchlist/{symbol} request served, "" if none
    requests,                \* the add_to_watchlist and remove_from_watchlist calls in flight:
                             \* op, symbol and position of each
    env_file,                \* the key=value lines of the .env file (strings), Absent for a key without a line
    env_exists,              \* ENV_FILE_PATH exists
    env_readable,            \* open(ENV_FILE_PATH, 'r') and the read of its lines succeed
    env_writable,            \* open(ENV_FILE_PATH, 'w') succeeds
    file_modified,           \* ENV_FILE_PATH.stat().st_mtime differs from _last_modified
    settings_cache,          \* _settings_cache, Absent for a key it has no entry for
    default_settings,        \* the dict DEFAULT_SETTINGS as it is now
    loadRaised,              \* the last load_settings() call raised
    settings_callbacks,      \* _settings_callbacks, in the order of registration
    new_settings,            \* settings.py:211, the dict the last reload_settings() loaded
    callbackLog,             \* the callbacks the last reload_settings() invoked, in order,
                             \* each with whether it raised
    reloadParity,            \* number of reload_settings() calls, modulo 2
    updateLog,               \* key, str(value) and outcome of the last update_setting call,
                             \* and the number of update_setting calls modulo 2
    \* ---- locals and position of historical_data_loader
    ldPc,                    \* "cycle" | "symbol" | "window" | "pause" | "wait"
    watchlist,               \* the snapshot returned by get_watchlist()
    idx,                     \* position of `symbol` in watchlist (1-based)
    offset_minutes,          \* local read at main.py:296
    analysis_hours,          \* local read at main.py:295
    current_time_ms,         \* main.py:309
    start_time_ms,           \* main.py:311
    end_time_ms,             \* main.py:310
    current_start,           \* main.py:315, 343
    waitSecs,                \* seconds of the asyncio.sleep that closes the cycle
    \* ---- history of the reconciliation loop (observation only)
    checked,                 \* the current symbol's check: "none" | "raised" | "reported"
    integrity_percentage,    \* integrity['integrity_percentage'] when checked = "reported"
    fetchLog,                \* <<start, end>> of each get_kline_data call for the current symbol
    fetchRaised,             \* the last get_kline_data call raised
    raisedBefore,            \* a get_kline_data call for the current symbol before the last one raised
    klines,                  \* main.py:321, the records the last get_kline_data call returned
    saveLog,                 \* kline_data saved from the last get_kline_data call
    saveRaised,              \* a save_historical_kline_data call for those records raised
    processed,               \* symbols whose processing began in this cycle, in order
    firstFailedAt,           \* first position in watchlist at which something raised in this cycle, 0 if none
    firstCheckFailedAt,      \* first position at which the settings read or the check raised, 0 if none
    cycleError,              \* the cycle ended in the outer except branch
    lateAdded,               \* symbols added since the last snapshot that are not in it
    carried                  \* symbols of the snapshot that were added during the previous cycle

feedVars == <<is_running, reconnect_attempts, reconnect_delay, max_reconnect_attempts,
              wsPc, delay, consecFails, failsSinceConnected, delays, shutdownStarted,
              shutPc, released, lastEnd>>
cleanVars == <<cleanPc, slept, cleanupCalls, retentionReads, passRaised, prevRaised,
               passParity, passesBegun, elapsed, startGap>>
callbackVars == <<settings_callbacks, new_settings, callbackLog, reloadParity>>
settingsVars == <<env_file, env_exists, env_readable, env_writable, file_modified,
                  settings_cache, default_settings, loadRaised, callbackVars, updateLog>>
pairVars == <<store_watchlist, trading_pairs, subscribed, hookIssued, removeCalled, requests>>
apiVars == <<pairVars, settingsVars>>
loaderVars == <<ldPc, watchlist, idx, offset_minutes, analysis_hours, current_time_ms,
                start_time_ms, end_time_ms, current_start, waitSecs, checked, integrity_percentage,
                fetchLog, fetchRaised, raisedBefore, klines, saveLog, saveRaised, processed,
                firstFailedAt, firstCheckFailedAt, cycleError, lateAdded, carried>>
vars == <<feedVars, cleanVars, apiVars, loaderVars>>

(***************************************************************************)
(* State after lifespan's startup (main.py:148-232): is_running was set    *)
(* and the loops were created as tasks; none has run yet.                  *)
(***************************************************************************)
\* the backoff fields of BybitWebSocketManager as constructed
InitBackoffFields ==
    /\ reconnect_attempts = 0
    /\ reconnect_delay \in ReconnectDelays
    /\ max_reconnect_attempts \in 1..MaxAttemptsBound

\* main.py:214-216: is_running = True, then the loop is created as a task
InitFeed ==
    /\ is_running = TRUE
    /\ InitBackoffFields
    /\ wsPc = "while"
    /\ delay = 0
    /\ consecFails = 0
    /\ failsSinceConnected = 0
    /\ delays = <<>>
    /\ shutdownStarted = FALSE
    /\ shutPc = "yield"
    /\ released = <<>>
    /\ lastEnd = "none"

InitClean ==
    /\ cleanPc = "sleep"
    /\ slept = 0
    /\ cleanupCalls = 0
    /\ retentionReads = 0
    /\ passRaised = FALSE
    /\ prevRaised = FALSE
    /\ passParity = 0
    /\ passesBegun = FALSE
    /\ elapsed = 0
    /\ startGap = 0

\* settings.py:44-45: the entries of DEFAULT_SETTINGS the reconciliation loop reads
DEFAULT_SETTINGS == [ANALYSIS_HOURS |-> "1", OFFSET_MINUTES |-> "0"]

\* settings.py:315: SETTINGS = load_settings() at import read the .env file, here with
\* the values create_env_file() writes (settings.py:120-157)
InitSettings ==
    /\ env_file = DEFAULT_SETTINGS
    /\ env_exists = TRUE
    /\ env_readable = TRUE
    /\ env_writable = TRUE
    /\ file_modified = FALSE
    /\ settings_cache = DEFAULT_SETTINGS
    /\ default_settings = DEFAULT_SETTINGS
    /\ loadRaised = FALSE
    /\ settings_callbacks = <<"update_all_components_settings">>
    /\ new_settings = DEFAULT_SETTINGS
    /\ callbackLog = <<>>
    /\ reloadParity = 0
    /\ updateLog = [key |-> "", value |-> "", outcome |-> "none", calls |-> 0]

\* a slot for a call of add_to_watchlist or remove_from_watchlist with no call in it
NoRequest == [op |-> "none", symbol |-> "", pc |-> "idle"]

\* main.py:201-205: trading_pairs = set(initial_watchlist)
InitApi ==
    /\ store_watchlist = <<"A", "B">>
    /\ trading_pairs = {"A", "B"}
    /\ subscribed = {"A", "B"}
    /\ hookIssued = {}
    /\ removeCalled = ""
    /\ requests = [r \in 1..MaxRequests |-> NoRequest]
    /\ InitSettings

InitLoader ==
    /\ ldPc = "cycle"
    /\ watchlist = <<>>
    /\ idx = 0
    /\ offset_minutes = 0
    /\ analysis_hours = 0
    /\ current_time_ms = 0
    /\ start_time_ms = 0
    /\ end_time_ms = 0
    /\ current_start = 0
    /\ waitSecs = 0
    /\ checked = "none"
    /\ integrity_percentage = 0
    /\ fetchLog = <<>>
    /\ fetchRaised = FALSE
    /\ raisedBefore = FALSE
    /\ klines = <<>>
    /\ saveLog = <<>>
    /\ saveRaised = FALSE
    /\ processed = <<>>
    /\ firstFailedAt = 0
    /\ firstCheckFailedAt = 0
    /\ cycleError = FALSE
    /\ lateAdded = {}
    /\ carried = {}

Init == InitFeed /\ InitClean /\ InitApi /\ InitLoader

(***************************************************************************)
(* bybit_websocket_loop, main.py:259-281                                   *)
(***************************************************************************)
\* variant: the delay is not capped
BackoffDelay_uncapped(rd, n) == rd * n

\* main.py:274  delay = min(reconnect_delay * reconnect_attempts, 60)
BackoffDelay(rd, n) == Min2(rd * n, max_delay_cap)

\* variant: the last allowed retry is given up
WithinAttemptCap_strict(n, max) == n < max

\* variant: one retry more than the cap allows
WithinAttemptCap_lenient(n, max) == n <= max + 1

\* main.py:273  reconnect_attempts <= max_reconnect_attempts
WithinAttemptCap(n, max) == n <= max

\* main.py:261-263: the while test, then the call of connect()
WsLoopTop ==
    /\ wsPc = "while"
    /\ wsPc' = IF is_running THEN "connect" ELSE "exit"
    /\ UNCHANGED <<is_running, reconnect_attempts, reconnect_delay,
                   max_reconnect_attempts, delay, consecFails, failsSinceConnected,
                   delays, shutdownStarted, shutPc, released, lastEnd>>
    /\ UNCHANGED <<cleanVars, apiVars, loaderVars>>

\* inside connect(): the connection is established and connect() stays suspended
ConnectEstablished ==
    /\ wsPc = "connect"
    /\ wsPc' = "connected"
    /\ failsSinceConnected' = 0
    /\ UNCHANGED <<is_running, reconnect_attempts, reconnect_delay,
                   max_reconnect_attempts, delay, consecFails, delays, shutdownStarted,
                   shutPc, released, lastEnd>>
    /\ UNCHANGED <<cleanVars, apiVars, loaderVars>>

\* main.py:263-265: connect() returns normally ("the connection was successful");
\* the counter is reset
ConnectReturns ==
    /\ wsPc \in {"connect", "connected"}
    /\ reconnect_attempts' = 0
    /\ consecFails' = 0
    /\ failsSinceConnected' = 0
    /\ delays' = <<>>
    /\ wsPc' = "while"
    /\ lastEnd' = "returned"
    /\ UNCHANGED <<is_running, reconnect_delay, max_reconnect_attempts, delay,
                   shutdownStarted, shutPc, released>>
    /\ UNCHANGED <<cleanVars, apiVars, loaderVars>>

\* variant: the failure is counted whatever is_running says
WsExcept_unguarded ==
    /\ reconnect_attempts' = reconnect_attempts + 1
    /\ consecFails' = consecFails + 1
    /\ failsSinceConnected' = failsSinceConnected + 1
    /\ IF WithinAttemptCap(reconnect_attempts', max_reconnect_attempts)
       THEN /\ delay' = BackoffDelay(reconnect_delay, reconnect_attempts')
            /\ delays' = Append(delays, delay')
            /\ wsPc' = "sleep"
            /\ UNCHANGED is_running
       ELSE /\ is_running' = FALSE
            /\ wsPc' = "exit"
            /\ UNCHANGED <<delay, delays>>

\* variant: the loop is left at the cap with the running flag still set
WsExcept_keepflag ==
    IF is_running
    THEN /\ reconnect_attempts' = reconnect_attempts + 1
         /\ consecFails' = consecFails + 1
         /\ failsSinceConnected' = failsSinceConnected + 1
         /\ IF WithinAttemptCap(reconnect_attempts', max_reconnect_attempts)
            THEN /\ delay' = BackoffDelay(reconnect_delay, reconnect_attempts')
                 /\ delays' = Append(delays, delay')
                 /\ wsPc' = "sleep"
                 /\ UNCHANGED is_running
            ELSE /\ wsPc' = "exit"
                 /\ UNCHANGED <<is_running, delay, delays>>
    ELSE /\ wsPc' = "while"
         /\ UNCHANGED <<is_running, reconnect_attempts, consecFails,
                        failsSinceConnected, delay, delays>>

\* main.py:267-281: the except branch, entered when connect() raises
WsExcept ==
    IF is_running
    THEN /\ reconnect_attempts' = reconnect_attempts + 1
         /\ consecFails' = consecFails + 1
         /\ failsSinceConnected' = failsSinceConnected + 1
         /\ IF WithinAttemptCap(reconnect_attempts', max_reconnect_attempts)
            THEN /\ delay' = BackoffDelay(reconnect_delay, reconnect_attempts')
                 /\ delays' = Append(delays, delay')
                 /\ wsPc' = "sleep"
                 /\ UNCHANGED is_running
            ELSE /\ is_running' = FALSE
                 /\ wsPc' = "exit"
                 /\ UNCHANGED <<delay, delays>>
    ELSE /\ wsPc' = "while"
         /\ UNCHANGED <<is_running, reconnect_attempts, consecFails,
                        failsSinceConnected, delay, delays>>

\* connect() raises, before or after the connection was established
ConnectRaises ==
    /\ wsPc \in {"connect", "connected"}
    /\ WsExcept
    /\ lastEnd' = "raised"
    /\ UNCHANGED <<reconnect_delay, max_reconnect_attempts, shutdownStarted, shutPc,
                   released>>
    /\ UNCHANGED <<cleanVars, apiVars, loaderVars>>

\* main.py:277: asyncio.sleep(delay) ends and the loop continues
WsSleepDone ==
    /\ wsPc = "sleep"
    /\ wsPc' = "while"
    /\ delay' = 0
    /\ lastEnd' = "slept"
    /\ UNCHANGED <<is_running, reconnect_attempts, reconnect_delay,
                   max_reconnect_attempts, consecFails, failsSinceConnected, delays,
                   shutdownStarted, shutPc, released>>
    /\ UNCHANGED <<cleanVars, apiVars, loaderVars>>

(***************************************************************************)
(* lifespan, main.py:142-256                                               *)
(***************************************************************************)
\* main.py:155-184: the resources lifespan acquires at startup, in the order of
\* their acquisition
AcquireOrder == <<"time_manager", "db_connection", "bybit_api", "price_filter",
                  "bybit_websocket">>

\* a step of the shutdown part that releases resource r and moves on to position next
ReleaseStep(r, next) ==
    /\ released' = Append(released, r)
    /\ shutPc' = next
    /\ UNCHANGED <<is_running, reconnect_attempts, reconnect_delay, max_reconnect_attempts,
                   wsPc, delay, consecFails, failsSinceConnected, delays, shutdownStarted,
                   lastEnd>>
    /\ UNCHANGED <<cleanVars, apiVars, loaderVars>>

\* main.py:240-247: stop_settings_monitor(), then await time_manager.stop()
ShutdownStopTimeManager ==
    /\ shutPc = "yield"
    /\ ReleaseStep("time_manager", "flag")

\* main.py:248-249: bybit_websocket.is_running = False
Shutdown ==
    /\ shutPc = "flag"
    /\ ~shutdownStarted
    /\ shutdownStarted' = TRUE
    /\ is_running' = FALSE
    /\ shutPc' = "close"
    /\ UNCHANGED <<reconnect_attempts, reconnect_delay, max_reconnect_attempts, wsPc,
                   delay, consecFails, failsSinceConnected, delays, released, lastEnd>>
    /\ UNCHANGED <<cleanVars, apiVars, loaderVars>>

\* main.py:250: await bybit_websocket.close()
ShutdownCloseFeed ==
    /\ shutPc = "close"
    /\ ReleaseStep("bybit_websocket", "api")

\* main.py:251-252: await bybit_api.stop()
ShutdownStopApi ==
    /\ shutPc = "api"
    /\ ReleaseStep("bybit_api", "filter")

\* main.py:253-254: await price_filter.stop()
ShutdownStopFilter ==
    /\ shutPc = "filter"
    /\ ReleaseStep("price_filter", "db")

\* main.py:255-256: db_connection.close(); lifespan returns
ShutdownCloseDb ==
    /\ shutPc = "db"
    /\ ReleaseStep("db_connection", "done")

(***************************************************************************)
(* periodic_cleanup, main.py:360-372                                       *)
(***************************************************************************)
\* main.py:364: asyncio.sleep(3600) ends; the pass begins
CleanupWake ==
    /\ cleanPc = "sleep"
    /\ cleanPc' = "cleanup"
    /\ slept' = CLEANUP_SLEEP
    /\ cleanupCalls' = 0
    /\ retentionReads' = 0
    /\ passRaised' = FALSE
    /\ prevRaised' = passRaised
    /\ passParity' = 1 - passParity
    /\ passesBegun' = TRUE
    /\ startGap' = IF passesBegun THEN elapsed + CLEANUP_SLEEP ELSE 0
    /\ elapsed' = 0
    /\ UNCHANGED <<feedVars, apiVars, loaderVars>>

\* variant: the exception ends the loop
CleanupExcept_fatal ==
    /\ passRaised' = TRUE
    /\ cleanPc' = "dead"

\* main.py:371-372: the except branch of a pass: log, back to the top of the loop
CleanupExcept ==
    /\ passRaised' = TRUE
    /\ cleanPc' = "sleep"

\* main.py:365-370: cleanup_old_data() returns; the retention setting is read
CleanupReturns ==
    /\ cleanPc = "cleanup"
    /\ cleanupCalls' = cleanupCalls + 1
    /\ retentionReads' = retentionReads + 1
    /\ cleanPc' = "sleep"
    /\ \E d \in CleanupDurations : elapsed' = d
    /\ UNCHANGED <<slept, passRaised, prevRaised, passParity, passesBegun, startGap>>
    /\ UNCHANGED <<feedVars, apiVars, loaderVars>>

\* main.py:365-366, 371-372: cleanup_old_data() raises
CleanupRaises ==
    /\ cleanPc = "cleanup"
    /\ cleanupCalls' = cleanupCalls + 1
    /\ CleanupExcept
    /\ \E d \in CleanupDurations : elapsed' = d
    /\ UNCHANGED <<slept, retentionReads, prevRaised, passParity, passesBegun, startGap>>
    /\ UNCHANGED <<feedVars, apiVars, loaderVars>>

(***************************************************************************)
(* Collaborators of the reconciliation loop, at their interface            *)
(***************************************************************************)
\* db_queries.get_watchlist(): a fresh list of the stored symbols, in stored order
get_watchlist == store_watchlist

\* variant: the snapshot is taken once and kept
CycleSnapshot_kept(prev) == IF prev = <<>> THEN get_watchlist ELSE prev

\* main.py:290: watchlist = await db_queries.get_watchlist(), taken anew by every
\* cycle whatever the previous cycle's snapshot prev was
CycleSnapshot(prev) == get_watchlist

(***************************************************************************)
(* settings.py                                                             *)
(***************************************************************************)
\* integers whose decimal form the model's .env file can hold
IntLiterals == HoursValues \cup OffsetValues

\* str(value) of an integer value, settings.py:297
Str(value) == ToString(value)

\* int(value), settings.py:285, of the strings that are integer literals
IntOfLiteral ==
    [literal \in {Str(n) : n \in IntLiterals} |-> CHOOSE n \in IntLiterals : Str(n) = literal]

\* settings.py:278-289: the conversion of a string value: int(value) when the string
\* is an integer literal, otherwise the string itself
Typed(value) == IF value \in DOMAIN IntOfLiteral THEN IntOfLiteral[value] ELSE value

\* marks a key for which a dict has no entry or the file no line
Absent == "<absent>"

\* the dict {} over the keys of the model
EmptyDict == [key \in DOMAIN DEFAULT_SETTINGS |-> Absent]

\* settings.py:166-168: current_modified == _last_modified and _settings_cache
CacheHit(modified, cache) == ~modified /\ cache # EmptyDict

\* settings.py:191-194: the keys the file has no line for take their value from
\* DEFAULT_SETTINGS
FilledIn(lines) ==
    [key \in DOMAIN lines |-> IF lines[key] = Absent THEN default_settings[key] ELSE lines[key]]

\* the globals of settings.py and the file load_settings() works on
Globals ==
    [cache |-> settings_cache, modified |-> file_modified, file |-> env_file,
     exists |-> env_exists]

\* settings.py:160-197, load_settings() called in state st = [cache, modified, file,
\* exists]: ret is the dict returned, alias the object it is ("cache": the object
\* _settings_cache names afterwards, "default": DEFAULT_SETTINGS), raised whether the
\* call raised, st the state afterwards.
\*   lines 165-171: stat() raises FileNotFoundError for a missing file, which is passed
\*     over; for an existing file a cache hit returns the cache, otherwise
\*     _last_modified takes the file's mtime;
\*   lines 174-175: a missing file is created by create_env_file() from
\*     DEFAULT_SETTINGS, whose open(ENV_FILE_PATH, 'w') raises when the file cannot be
\*     written (lines 125, no handler);
\*   lines 180-189: a failing read returns DEFAULT_SETTINGS and leaves the cache;
\*   lines 191-197: a successful read, filled in from DEFAULT_SETTINGS, becomes the cache.
load_settings(st) ==
    IF st.exists /\ CacheHit(st.modified, st.cache)
    THEN [ret |-> st.cache, alias |-> "cache", raised |-> FALSE, st |-> st]
    ELSE IF ~st.exists /\ ~env_writable
    THEN [ret |-> EmptyDict, alias |-> "none", raised |-> TRUE, st |-> st]
    ELSE LET there == IF st.exists
                      THEN [st EXCEPT !.modified = FALSE]
                      ELSE [st EXCEPT !.exists = TRUE, !.file = default_settings,
                                      !.modified = TRUE]
         IN IF env_readable
            THEN [ret |-> FilledIn(there.file), alias |-> "cache", raised |-> FALSE,
                  st |-> [there EXCEPT !.cache = FilledIn(there.file)]]
            ELSE [ret |-> default_settings, alias |-> "default", raised |-> FALSE,
                  st |-> there]

\* settings.py:273-289, get_setting(key, default) on the dict load_settings() returned
get_setting(loadedSettings, key, default) ==
    IF loadedSettings[key] # Absent THEN Typed(loadedSettings[key]) ELSE default

\* main.py:295-296: the two get_setting calls of a symbol, each with its own
\* load_settings(); first and second are the results of the two loads
FirstLoad == load_settings(Globals)

SecondLoad == load_settings(FirstLoad.st)

\* one of the two load_settings() calls of a symbol raises
SettingsReadRaises == FirstLoad.raised \/ SecondLoad.raised

\* the globals of settings.py and the file after load_settings() ended in state st
AfterLoad(st, raised) ==
    /\ settings_cache' = st.cache
    /\ file_modified' = st.modified
    /\ env_file' = st.file
    /\ env_exists' = st.exists
    /\ loadRaised' = raised

\* the globals of settings.py after the two loads, or after the first if it raised
AfterSettingsReads ==
    /\ IF FirstLoad.raised
       THEN AfterLoad(FirstLoad.st, TRUE)
       ELSE AfterLoad(SecondLoad.st, SecondLoad.raised)
    /\ UNCHANGED <<env_readable, env_writable, default_settings, callbackVars, updateLog>>

\* pairs <<ANALYSIS_HOURS, OFFSET_MINUTES>> of HoursValues \X OffsetValues for which
\* the double product (analysis_hours + offset_minutes / 60) * 60 falls below the
\* exact integer, so that int() drops a minute: (1 + 40/60) * 60 = 99.99999999999999
FloatLoss == {<<1, 40>>}

\* main.py:299-301, 311: int(total_hours * 60),
\* total_hours = analysis_hours + (offset_minutes / 60)
WindowMinutes(h, m) == h * 60 + m - (IF <<h, m>> \in FloatLoss THEN 1 ELSE 0)

\* variant: the threshold itself counts as deficient
NeedsBackfill_inclusive(pct) == pct <= INTEGRITY_THRESHOLD

\* main.py:304: integrity['integrity_percentage'] < 90
NeedsBackfill(pct) == pct < INTEGRITY_THRESHOLD

\* main.py:310: end_time_ms = current_time_ms - (offset_minutes * 60 * 1000)
EndTimeMs(now, m) == now - (m * 60 * 1000)

\* main.py:311: start_time_ms = end_time_ms - (int(total_hours * 60) * 60 * 1000)
StartTimeMs(end, h, m) == end - (WindowMinutes(h, m) * 60 * 1000)

\* main.py:317: while current_start < end_time_ms
MoreWindows(cs, end) == cs < end

\* variant: the last sub-window is not clipped to the end of the range
CurrentEnd_unclipped(cs, end) == cs + (batch_size_hours * 60 * 60 * 1000)

\* main.py:318: current_end = min(current_start + batch_size_hours * 60 * 60 * 1000, end_time_ms)
CurrentEnd(cs, end) == Min2(cs + (batch_size_hours * 60 * 60 * 1000), end)

\* variant: a sub-window whose fetch raised is requested again
NextStart_retry(cs, ce, raised) == IF raised THEN cs ELSE ce

\* main.py:343: current_start = current_end, after the try statement of the
\* sub-window, whether get_kline_data raised or not
NextStart(cs, ce, raised) == ce

\* bybit_api.get_kline_data, at its interface: the record the exchange holds for
\* the minute that starts at timestamp
ExchangeKline(timestamp) ==
    [timestamp |-> timestamp,
     open |-> 4, high |-> 9, low |-> 2, close |-> 6,
     volume |-> 50 + ((timestamp \div 60000) % 2)]

\* main.py:325-333: kline_data built from one returned kline
KlineData(kline) ==
    [start |-> kline.timestamp, end |-> kline.timestamp + 60000,
     open |-> kline.open, high |-> kline.high, low |-> kline.low,
     close |-> kline.close, volume |-> kline.volume]

\* variant: the same sleep after an error
CycleWait_same(err) == CYCLE_SLEEP

\* main.py:353, 357: the sleep that closes a cycle
CycleWait(err) == IF err THEN ERROR_SLEEP ELSE CYCLE_SLEEP

\* main.py:292: the for loop moves on after position i of snapshot w
AfterSymbol(w, i) == IF i < Len(w) THEN "symbol" ELSE "wait"

\* variant: the per-symbol error ends historical_data_loader
AfterSymbolError_stop(w, i) == "stopped"

\* variant: the per-symbol error ends the for loop
AfterSymbolError_break(w, i) == "wait"

\* main.py:348-350: the per-symbol except branch: log and continue with the next symbol
AfterSymbolError(w, i) == AfterSymbol(w, i)

(***************************************************************************)
(* historical_data_loader, main.py:284-357                                 *)
(***************************************************************************)
ClearSymbolLocals ==
    /\ integrity_percentage' = 0
    /\ offset_minutes' = 0
    /\ analysis_hours' = 0
    /\ current_time_ms' = 0
    /\ start_time_ms' = 0
    /\ end_time_ms' = 0
    /\ current_start' = 0
    /\ fetchLog' = <<>>
    /\ fetchRaised' = FALSE
    /\ raisedBefore' = FALSE
    /\ klines' = <<>>
    /\ saveLog' = <<>>
    /\ saveRaised' = FALSE

\* main.py:288-292: get_watchlist() returns the snapshot the cycle iterates over
LoaderGetWatchlist ==
    /\ ldPc = "cycle"
    /\ watchlist' = CycleSnapshot(watchlist)
    /\ idx' = 1
    /\ ldPc' = AfterSymbol(watchlist', 0)
    /\ waitSecs' = IF ldPc' = "wait" THEN CycleWait(FALSE) ELSE 0
    /\ processed' = <<>>
    /\ firstFailedAt' = 0
    /\ firstCheckFailedAt' = 0
    /\ cycleError' = FALSE
    /\ carried' = lateAdded \cap Range(watchlist')
    /\ lateAdded' = {}
    /\ checked' = "none"
    /\ ClearSymbolLocals
    /\ UNCHANGED <<feedVars, cleanVars, apiVars>>

\* main.py:290, 355-357: get_watchlist() raises; the outer except branch sleeps 300
LoaderGetWatchlistRaises ==
    /\ ldPc = "cycle"
    /\ ldPc' = "wait"
    /\ waitSecs' = CycleWait(TRUE)
    /\ cycleError' = TRUE
    /\ processed' = <<>>
    /\ firstFailedAt' = 0
    /\ firstCheckFailedAt' = 0
    /\ carried' = {}
    /\ checked' = "none"
    /\ ClearSymbolLocals
    /\ UNCHANGED <<watchlist, idx, lateAdded>>
    /\ UNCHANGED <<feedVars, cleanVars, apiVars>>

\* main.py:293-301, 348-350: the settings are read; get_setting raises, or
\* check_data_integrity raises for the symbol
LoaderCheckRaises ==
    /\ ldPc = "symbol"
    /\ AfterSettingsReads
    /\ processed' = Append(processed, watchlist[idx])
    /\ checked' = "raised"
    /\ firstFailedAt' = FirstOf(firstFailedAt, idx)
    /\ firstCheckFailedAt' = FirstOf(firstCheckFailedAt, idx)
    /\ ldPc' = AfterSymbolError(watchlist, idx)
    /\ idx' = idx + 1
    /\ waitSecs' = IF ldPc' = "wait" THEN CycleWait(FALSE) ELSE 0
    /\ ClearSymbolLocals
    /\ UNCHANGED <<watchlist, cycleError, lateAdded, carried>>
    /\ UNCHANGED <<feedVars, cleanVars, pairVars>>

\* main.py:293-315, 346: the settings are read, check_data_integrity reports a
\* percentage, and the fetch range is computed when the symbol is deficient
LoaderCheckSymbol ==
    /\ ldPc = "symbol"
    /\ ~SettingsReadRaises
    /\ processed' = Append(processed, watchlist[idx])
    /\ analysis_hours' = get_setting(FirstLoad.ret, "ANALYSIS_HOURS", 1)
    /\ offset_minutes' = get_setting(SecondLoad.ret, "OFFSET_MINUTES", 0)
    /\ AfterSettingsReads
    /\ \E pct \in PctValues :
         /\ checked' = "reported"
         /\ integrity_percentage' = pct
         /\ IF NeedsBackfill(pct)
            THEN /\ \E now \in NowValues : current_time_ms' = now
                 /\ end_time_ms' = EndTimeMs(current_time_ms', offset_minutes')
                 /\ start_time_ms' = StartTimeMs(end_time_ms', analysis_hours', offset_minutes')
                 /\ current_start' = start_time_ms'
                 /\ ldPc' = "window"
            ELSE /\ ldPc' = "pause"
                 /\ UNCHANGED <<current_time_ms, end_time_ms, start_time_ms, current_start>>
    /\ UNCHANGED <<watchlist, idx, waitSecs, fetchLog, fetchRaised, raisedBefore, klines, saveLog,
                   saveRaised, firstFailedAt,
                   firstCheckFailedAt, cycleError, lateAdded, carried>>
    /\ UNCHANGED <<feedVars, cleanVars, pairVars>>

\* variant: a save that raises is logged and the for loop goes on with the records
\* after it
SavedAfter_each(returned, k, raised) ==
    [j \in 1..(IF raised THEN Len(returned) - 1 ELSE Len(returned)) |->
        KlineData(returned[IF raised /\ j > k THEN j + 1 ELSE j])]

\* main.py:323-341: the for loop over the returned records inside the try statement
\* of the sub-window: the first k records are saved in order, and a save that raises
\* (raised) ends the loop, the except branch of line 339 being outside it
SavedAfter(returned, k, raised) == [j \in 1..k |-> KlineData(returned[j])]

\* main.py:317-344: one pass of the inner while loop: get_kline_data is called for
\* the sub-window; it raises, or returns n klines; either every save returns or
\* the save of record k + 1 raises
LoaderFetchWindow ==
    /\ ldPc = "window"
    /\ MoreWindows(current_start, end_time_ms)
    /\ LET current_end == CurrentEnd(current_start, end_time_ms) IN
         /\ fetchLog' = Append(fetchLog, <<current_start, current_end>>)
         /\ raisedBefore' = (raisedBefore \/ fetchRaised)
         /\ \/ /\ fetchRaised' = TRUE
               /\ klines' = <<>>
               /\ saveLog' = <<>>
               /\ saveRaised' = FALSE
               /\ firstFailedAt' = FirstOf(firstFailedAt, idx)
            \/ \E n \in 0..MaxKlines : \E k \in 0..n :
                 /\ fetchRaised' = FALSE
                 /\ klines' = [j \in 1..n |-> ExchangeKline(current_start + (j - 1) * 60000)]
                 /\ saveRaised' = (k < n)
                 /\ saveLog' = SavedAfter(klines', k, saveRaised')
                 /\ firstFailedAt' = IF saveRaised' THEN FirstOf(firstFailedAt, idx)
                                     ELSE firstFailedAt
         /\ current_start' = NextStart(current_start, current_end, fetchRaised')
    /\ UNCHANGED <<ldPc, watchlist, idx, offset_minutes, analysis_hours, current_time_ms,
                   start_time_ms, end_time_ms, waitSecs, checked, integrity_percentage,
                   processed, firstCheckFailedAt, cycleError, lateAdded, carried>>
    /\ UNCHANGED <<feedVars, cleanVars, apiVars>>

\* main.py:317, 346: the inner while loop ends; asyncio.sleep(0.5) between symbols
LoaderWindowsDone ==
    /\ ldPc = "window"
    /\ ~MoreWindows(current_start, end_time_ms)
    /\ ldPc' = "pause"
    /\ UNCHANGED <<watchlist, idx, offset_minutes, analysis_hours, current_time_ms,
                   start_time_ms, end_time_ms, current_start, waitSecs, checked,
                   integrity_percentage, fetchLog, fetchRaised, raisedBefore, klines, saveLog,
                   saveRaised, processed,
                   firstFailedAt, firstCheckFailedAt, cycleError, lateAdded, carried>>
    /\ UNCHANGED <<feedVars, cleanVars, apiVars>>

\* main.py:346, 292, 353: the pause ends; next symbol, or the sleep closing the cycle
LoaderPauseDone ==
    /\ ldPc = "pause"
    /\ ldPc' = AfterSymbol(watchlist, idx)
    /\ idx' = idx + 1
    /\ waitSecs' = IF ldPc' = "wait" THEN CycleWait(FALSE) ELSE 0
    /\ checked' = "none"
    /\ ClearSymbolLocals
    /\ UNCHANGED <<watchlist, processed, firstFailedAt, firstCheckFailedAt, cycleError, lateAdded,
                   carried>>
    /\ UNCHANGED <<feedVars, cleanVars, apiVars>>

\* main.py:353, 357, 286: the closing sleep ends; the next cycle begins (the history
\* of the cycle that ended is dropped)
LoaderWaitDone ==
    /\ ldPc = "wait"
    /\ ldPc' = "cycle"
    /\ waitSecs' = 0
    /\ processed' = <<>>
    /\ firstFailedAt' = 0
    /\ firstCheckFailedAt' = 0
    /\ cycleError' = FALSE
    /\ carried' = {}
    /\ UNCHANGED <<watchlist, idx, offset_minutes, analysis_hours, current_time_ms,
                   start_time_ms, end_time_ms, current_start, checked,
                   integrity_percentage, fetchLog, fetchRaised, raisedBefore, klines, saveLog,
                   saveRaised, lateAdded>>
    /\ UNCHANGED <<feedVars, cleanVars, apiVars>>

(***************************************************************************)
(* Watchlist API, main.py:478-499 and 600-620; settings file edits         *)
(***************************************************************************)
\* main.py:478-499: add_to_watchlist for a symbol not yet stored, served with no other
\* watchlist call in flight between its awaits. The loop reads the
\* store only in get_watchlist() (main.py:290), so a change of the watchlist made while
\* a symbol's sub-windows are fetched or during the pause after them is the same
\* change made when the loop is about to start the next symbol or to sleep.
AddToWatchlist ==
    \E s \in Symbols \ Range(store_watchlist) :
        /\ ldPc \notin {"window", "pause"}
        /\ Len(store_watchlist) < MaxWatch
        /\ store_watchlist' = Append(store_watchlist, s)
        /\ trading_pairs' = trading_pairs \cup {s}
        /\ subscribed' = subscribed \cup {s}
        /\ removeCalled' = IF removeCalled = s THEN "" ELSE removeCalled
        /\ UNCHANGED <<hookIssued, requests>>
        /\ lateAdded' = IF ldPc # "cycle" /\ s \notin Range(watchlist)
                        THEN lateAdded \cup {s} ELSE lateAdded
        /\ UNCHANGED <<settingsVars, ldPc, watchlist, idx, offset_minutes, analysis_hours,
                       current_time_ms, start_time_ms, end_time_ms, current_start,
                       waitSecs, checked, integrity_percentage, fetchLog, fetchRaised, raisedBefore,
                       klines, saveLog, saveRaised, processed, firstFailedAt, firstCheckFailedAt,
                       cycleError, carried>>
        /\ UNCHANGED <<feedVars, cleanVars>>

\* main.py:600-620: remove_from_watchlist for a stored symbol, as run by a caller of
\* the function (no route of main.py dispatches to it, see DeleteWatchlistRoute), with
\* no other watchlist call in flight between its awaits
RemoveFromWatchlist ==
    \E s \in Range(store_watchlist) :
        /\ ldPc \notin {"window", "pause"}
        /\ store_watchlist' = SelectSeq(store_watchlist, LAMBDA x : x # s)
        /\ trading_pairs' = trading_pairs \ {s}
        /\ subscribed' = subscribed \ {s}
        /\ UNCHANGED <<hookIssued, removeCalled, requests>>
        /\ lateAdded' = lateAdded \ {s}
        /\ UNCHANGED <<settingsVars, ldPc, watchlist, idx, offset_minutes, analysis_hours,
                       current_time_ms, start_time_ms, end_time_ms, current_start,
                       waitSecs, checked, integrity_percentage, fetchLog, fetchRaised, raisedBefore,
                       klines, saveLog, saveRaised, processed, firstFailedAt, firstCheckFailedAt,
                       cycleError, carried>>
        /\ UNCHANGED <<feedVars, cleanVars>>

\* db_queries.add_to_watchlist(symbol) and remove_from_watchlist(symbol), at their
\* interface: the symbol joins the stored watchlist once, or leaves it
StoreApply(store, op, symbol) ==
    IF op = "add"
    THEN (IF symbol \in Range(store) THEN store ELSE Append(store, symbol))
    ELSE SelectSeq(store, LAMBDA x : x # symbol)

\* main.py:486 and 607: trading_pairs.add(symbol), trading_pairs.discard(symbol)
PairsApply(pairs, op, symbol) ==
    IF op = "add" THEN pairs \cup {symbol} ELSE pairs \ {symbol}

\* the calls in flight that will still add a symbol to the store
AddsAhead == {r \in 1..MaxRequests : requests[r].op = "add" /\ requests[r].pc = "store"}

\* main.py:479-482 and 600-603: a call of add_to_watchlist(symbol) or
\* remove_from_watchlist(symbol) begins and awaits the store
RequestBegins ==
    \E r \in 1..MaxRequests : \E op \in {"add", "remove"} : \E symbol \in Symbols :
        /\ requests[r] = NoRequest
        /\ op = "add" => Len(store_watchlist) + Cardinality(AddsAhead) < MaxWatch
        /\ requests' = [requests EXCEPT ![r] = [op |-> op, symbol |-> symbol, pc |-> "store"]]
        /\ UNCHANGED <<store_watchlist, trading_pairs, subscribed, hookIssued, removeCalled,
                       settingsVars>>
        /\ UNCHANGED <<feedVars, cleanVars, loaderVars>>

\* main.py:482 and 603: the store applies the change the call awaits
RequestStoreDone ==
    \E r \in 1..MaxRequests :
        /\ requests[r].pc = "store"
        /\ store_watchlist' = StoreApply(store_watchlist, requests[r].op, requests[r].symbol)
        /\ requests' = [requests EXCEPT ![r].pc = "resume"]
        /\ UNCHANGED <<trading_pairs, subscribed, hookIssued, removeCalled, settingsVars>>
        /\ UNCHANGED <<feedVars, cleanVars, loaderVars>>

\* main.py:485-487 and 606-608: the call is resumed after the store's await, changes
\* trading_pairs and awaits subscribe_to_new_pairs or unsubscribe_from_pairs
RequestResumes ==
    \E r \in 1..MaxRequests :
        /\ requests[r].pc = "resume"
        /\ trading_pairs' = PairsApply(trading_pairs, requests[r].op, requests[r].symbol)
        /\ requests' = [requests EXCEPT ![r].pc = "feed"]
        /\ UNCHANGED <<store_watchlist, subscribed, hookIssued, removeCalled, settingsVars>>
        /\ UNCHANGED <<feedVars, cleanVars, loaderVars>>

\* main.py:487-496 and 608-617: the feed applies the subscription change the call
\* awaits; the broadcast follows and the call returns
RequestFeedDone ==
    \E r \in 1..MaxRequests :
        /\ requests[r].pc = "feed"
        /\ subscribed' = PairsApply(subscribed, requests[r].op, requests[r].symbol)
        /\ requests' = [requests EXCEPT ![r] = NoRequest]
        /\ UNCHANGED <<store_watchlist, trading_pairs, hookIssued, removeCalled, settingsVars>>
        /\ UNCHANGED <<feedVars, cleanVars, loaderVars>>

\* BybitWebSocketManager.update_trading_pairs(new_pairs, removed_pairs), at its
\* interface: the new pairs join the trading pairs, the removed ones leave them
update_trading_pairs(pairs, new_pairs, removed_pairs) == (pairs \cup new_pairs) \ removed_pairs

\* the feed calls on_pairs_updated issues for its arguments, main.py:191-194
HookCalls(new_pairs, removed_pairs) ==
    (IF new_pairs # {} THEN {<<"subscribe", new_pairs>>} ELSE {})
        \cup (IF removed_pairs # {} THEN {<<"unsubscribe", removed_pairs>>} ELSE {})

\* main.py:187-194: on_pairs_updated(new_pairs, removed_pairs), the callback the
\* price filter calls with the pairs it added to and removed from the watchlist
OnPairsUpdated ==
    \E new_pairs \in SUBSET Symbols : \E removed_pairs \in SUBSET (Symbols \ new_pairs) :
        /\ trading_pairs' = update_trading_pairs(trading_pairs, new_pairs, removed_pairs)
        /\ hookIssued' = HookCalls(new_pairs, removed_pairs)
        /\ LET afterSubscribe == IF new_pairs # {} THEN subscribed \cup new_pairs
                                 ELSE subscribed
           IN subscribed' = IF removed_pairs # {} THEN afterSubscribe \ removed_pairs
                            ELSE afterSubscribe
        /\ UNCHANGED <<store_watchlist, removeCalled, requests, settingsVars>>
        /\ UNCHANGED <<feedVars, cleanVars, loaderVars>>

\* variant: a callback that raises ends the notification
Invoked_abort(callbacks, raises) ==
    LET n == IF \E i \in 1..Len(callbacks) : raises[i]
             THEN CHOOSE i \in 1..Len(callbacks) :
                      raises[i] /\ \A j \in 1..(i - 1) : ~raises[j]
             ELSE Len(callbacks)
    IN [i \in 1..n |-> [callback |-> callbacks[i], raised |-> raises[i]]]

\* settings.py:214-221: the for loop over _settings_callbacks, each call in its own
\* try statement; raises[i] tells whether the call of the i-th callback raises
Invoked(callbacks, raises) ==
    [i \in 1..Len(callbacks) |-> [callback |-> callbacks[i], raised |-> raises[i]]]

\* settings.py:200-226, reload_settings() after its sleep: the cache is emptied,
\* load_settings() reads the file and every registered callback is called with the
\* dict it returned; when load_settings() raises, the outer except branch (line 225)
\* ends the reload before any callback. The callbacks do not register or unregister
\* callbacks.
reload_settings ==
    LET loaded == load_settings([Globals EXCEPT !.cache = EmptyDict]) IN
        /\ AfterLoad(loaded.st, loaded.raised)
        /\ reloadParity' = 1 - reloadParity
        /\ IF loaded.raised
           THEN /\ callbackLog' = <<>>
                /\ UNCHANGED new_settings
           ELSE /\ new_settings' = loaded.ret
                /\ \E raises \in [1..Len(settings_callbacks) -> BOOLEAN] :
                     callbackLog' = Invoked(settings_callbacks, raises)
        /\ UNCHANGED <<env_readable, env_writable, default_settings, settings_callbacks,
                       updateLog>>

\* main.py:587-597: POST /api/settings/reload, served by reload_settings_endpoint
PostSettingsReload ==
    /\ ldPc \notin {"window", "pause"}
    /\ reload_settings
    /\ UNCHANGED <<pairVars, feedVars, cleanVars, loaderVars>>

\* main.py:586-597: DELETE /api/watchlist/{symbol}: the route decorator stands on
\* reload_settings_endpoint, so that is the handler that serves the request
DeleteWatchlistRoute ==
    \E symbol \in Symbols :
        /\ ldPc \notin {"window", "pause"}
        /\ reload_settings
        /\ removeCalled' = symbol
        /\ UNCHANGED <<store_watchlist, trading_pairs, subscribed, hookIssued, requests>>
        /\ UNCHANGED <<feedVars, cleanVars, loaderVars>>

\* settings.py:229-231, register_settings_callback(callback)
RegisterCallback ==
    \E callback \in Callbacks :
        /\ Len(settings_callbacks) < MaxCallbacks
        /\ settings_callbacks' = Append(settings_callbacks, callback)
        /\ UNCHANGED <<env_file, env_exists, env_readable, env_writable, file_modified,
                       settings_cache, default_settings, loadRaised, new_settings,
                       callbackLog, reloadParity, updateLog>>
        /\ UNCHANGED <<pairVars, feedVars, cleanVars, loaderVars>>

\* list.remove(callback): the first occurrence is removed
RemoveFirst(callbacks, callback) ==
    LET at == CHOOSE i \in 1..Len(callbacks) :
                  callbacks[i] = callback /\ \A j \in 1..(i - 1) : callbacks[j] # callback
    IN [i \in 1..(Len(callbacks) - 1) |-> IF i < at THEN callbacks[i] ELSE callbacks[i + 1]]

\* settings.py:234-237, unregister_settings_callback(callback)
UnregisterCallback ==
    \E callback \in Callbacks :
        /\ settings_callbacks' = IF callback \in Range(settings_callbacks)
                                 THEN RemoveFirst(settings_callbacks, callback)
                                 ELSE settings_callbacks
        /\ UNCHANGED <<env_file, env_exists, env_readable, env_writable, file_modified,
                       settings_cache, default_settings, loadRaised, new_settings,
                       callbackLog, reloadParity, updateLog>>
        /\ UNCHANGED <<pairVars, feedVars, cleanVars, loaderVars>>

\* settings.py:296-300: `settings` is the object load_settings() returned, so
\* settings[key] = str(value) writes to the dict named `which` when load_settings()
\* returned that object
Aliased(alias, which) == alias = which

\* settings.py:292-311, update_setting(key, value): load_settings(); the entry is set
\* to str(value) in the dict it returned (the cache object, or DEFAULT_SETTINGS itself
\* after a failing read) and in _settings_cache; the file is rewritten from the dict,
\* which changes its mtime, unless open(ENV_FILE_PATH, 'w') raises. The loop
\* reads the settings only at the start of a symbol (main.py:295-296), so an update made
\* while a symbol's sub-windows are fetched or during the pause after them is the
\* same update made when the loop is about to start the next symbol or to sleep.
UpdateSetting ==
    \E key \in DOMAIN DEFAULT_SETTINGS :
      \E value \in (IF key = "ANALYSIS_HOURS" THEN HoursValues ELSE OffsetValues) :
        LET loaded == load_settings(Globals)
            settings == [loaded.ret EXCEPT ![key] = Str(value)]
        IN  /\ ldPc \notin {"window", "pause"}
            /\ loadRaised' = loaded.raised
            /\ IF loaded.raised
               THEN /\ settings_cache' = loaded.st.cache
                    /\ file_modified' = loaded.st.modified
                    /\ env_file' = loaded.st.file
                    /\ env_exists' = loaded.st.exists
                    /\ UNCHANGED default_settings
                    /\ updateLog' = [key |-> key, value |-> Str(value), outcome |-> "raised",
                                     calls |-> 1 - updateLog.calls]
               ELSE /\ settings_cache' = IF Aliased(loaded.alias, "cache") THEN settings
                                         ELSE [loaded.st.cache EXCEPT ![key] = Str(value)]
                    /\ default_settings' = IF Aliased(loaded.alias, "default") THEN settings
                                           ELSE default_settings
                    /\ env_exists' = loaded.st.exists
                    /\ IF env_writable
                       THEN /\ env_file' = settings
                            /\ file_modified' = TRUE
                            /\ updateLog' = [key |-> key, value |-> Str(value),
                                             outcome |-> "returned",
                                             calls |-> 1 - updateLog.calls]
                       ELSE /\ env_file' = loaded.st.file
                            /\ file_modified' = loaded.st.modified
                            /\ updateLog' = [key |-> key, value |-> Str(value),
                                             outcome |-> "raised",
                                             calls |-> 1 - updateLog.calls]
            /\ UNCHANGED <<env_readable, env_writable, callbackVars>>
            /\ UNCHANGED <<pairVars, feedVars, cleanVars, loaderVars>>

\* the .env file is edited from outside the process: one line changed, a new mtime
ExternalEdit ==
    \E key \in DOMAIN DEFAULT_SETTINGS :
      \E value \in (IF key = "ANALYSIS_HOURS" THEN HoursValues ELSE OffsetValues) :
        /\ ldPc \notin {"window", "pause"}
        /\ env_exists
        /\ env_file[key] # Str(value)
        /\ env_file' = [env_file EXCEPT ![key] = Str(value)]
        /\ file_modified' = TRUE
        /\ UNCHANGED <<env_exists, env_readable, env_writable, settings_cache,
                       default_settings, loadRaised, callbackVars, updateLog>>
        /\ UNCHANGED <<pairVars, feedVars, cleanVars, loaderVars>>

\* reading the .env file starts or stops failing (the except branch of
\* settings.py:180-189 is taken while it fails); the content and mtime are untouched
EnvAccessChanges ==
    /\ ldPc \notin {"window", "pause"}
    /\ env_readable' = ~env_readable
    /\ UNCHANGED <<env_file, env_exists, env_writable, file_modified, settings_cache,
                   default_settings, loadRaised, callbackVars, updateLog>>
    /\ UNCHANGED <<pairVars, feedVars, cleanVars, loaderVars>>

\* writing the .env file or creating it starts or stops failing (open(ENV_FILE_PATH,
\* 'w') of settings.py:125 and 303 raises while it fails)
EnvWriteAccessChanges ==
    /\ ldPc \notin {"window", "pause"}
    /\ env_writable' = ~env_writable
    /\ UNCHANGED <<env_file, env_exists, env_readable, file_modified, settings_cache,
                   default_settings, loadRaised, callbackVars, updateLog>>
    /\ UNCHANGED <<pairVars, feedVars, cleanVars, loaderVars>>

\* the .env file is removed from outside the process (stat() of settings.py:166 then
\* raises FileNotFoundError and exists() of line 174 is false)
EnvFileRemoved ==
    /\ ldPc \notin {"window", "pause"}
    /\ env_exists
    /\ env_exists' = FALSE
    /\ env_file' = EmptyDict
    /\ UNCHANGED <<env_readable, env_writable, file_modified, settings_cache,
                   default_settings, loadRaised, callbackVars, updateLog>>
    /\ UNCHANGED <<pairVars, feedVars, cleanVars, loaderVars>>

(***************************************************************************)
(* Specifications                                                          *)
(***************************************************************************)
\* the streaming loop, the maintenance loop and shutdown
Next ==
    \/ WsLoopTop
    \/ ConnectEstablished
    \/ ConnectReturns
    \/ ConnectRaises
    \/ WsSleepDone
    \/ ShutdownStopTimeManager
    \/ Shutdown
    \/ ShutdownCloseFeed
    \/ ShutdownStopApi
    \/ ShutdownStopFilter
    \/ ShutdownCloseDb
    \/ CleanupWake
    \/ CleanupReturns
    \/ CleanupRaises

Spec == Init /\ [][Next]_vars

\* the event loop resumes periodic_cleanup whenever its sleep or its call completes
\* and bybit_websocket_loop whenever its backoff sleep completes
FairSpec ==
    /\ Spec
    /\ WF_vars(CleanupWake)
    /\ WF_vars(CleanupReturns \/ CleanupRaises)
    /\ WF_vars(WsSleepDone)
    /\ WF_vars(WsLoopTop)

\* the reconciliation loop beside the watchlist API, the settings as they are in
\* DEFAULT_SETTINGS
LoaderNext ==
    \/ LoaderGetWatchlist
    \/ LoaderGetWatchlistRaises
    \/ LoaderCheckRaises
    \/ LoaderCheckSymbol
    \/ LoaderFetchWindow
    \/ LoaderWindowsDone
    \/ LoaderPauseDone
    \/ LoaderWaitDone
    \/ AddToWatchlist
    \/ RemoveFromWatchlist

\* the backoff fields are not read by the reconciliation loop: one value of each
LoaderInit == Init /\ reconnect_delay = 5 /\ max_reconnect_attempts = 1

LoaderSpec == LoaderInit /\ [][LoaderNext]_vars

\* the reconciliation loop over a fixed watchlist beside outside edits and failing
\* reads of the .env file
ConfigNext ==
    \/ LoaderGetWatchlist
    \/ LoaderGetWatchlistRaises
    \/ LoaderCheckRaises
    \/ LoaderCheckSymbol
    \/ LoaderFetchWindow
    \/ LoaderWindowsDone
    \/ LoaderPauseDone
    \/ LoaderWaitDone
    \/ ExternalEdit
    \/ EnvAccessChanges

ConfigSpec == LoaderInit /\ [][ConfigNext]_vars

\* the event loop resumes historical_data_loader whenever the call or the sleep it
\* awaits completes
ConfigFairSpec ==
    /\ ConfigSpec
    /\ WF_vars(LoaderGetWatchlist \/ LoaderGetWatchlistRaises)
    /\ WF_vars(LoaderCheckSymbol \/ LoaderCheckRaises)
    /\ WF_vars(LoaderFetchWindow)
    /\ WF_vars(LoaderWindowsDone)
    /\ WF_vars(LoaderPauseDone)
    /\ WF_vars(LoaderWaitDone)

\* the reconciliation loop over a fixed watchlist while the .env file is edited,
\* removed, and its reading and writing fail
OutageNext ==
    \/ LoaderGetWatchlist
    \/ LoaderGetWatchlistRaises
    \/ LoaderCheckRaises
    \/ LoaderCheckSymbol
    \/ LoaderFetchWindow
    \/ LoaderWindowsDone
    \/ LoaderPauseDone
    \/ LoaderWaitDone
    \/ ExternalEdit
    \/ EnvAccessChanges
    \/ EnvWriteAccessChanges
    \/ EnvFileRemoved

OutageSpec == LoaderInit /\ [][OutageNext]_vars

\* reloads of the settings and the registration of callbacks beside what happens to
\* the .env file
ReloadNext ==
    \/ PostSettingsReload
    \/ RegisterCallback
    \/ UnregisterCallback
    \/ ExternalEdit
    \/ EnvAccessChanges
    \/ EnvWriteAccessChanges
    \/ EnvFileRemoved

ReloadSpec == LoaderInit /\ [][ReloadNext]_vars

\* updates of settings beside what happens to the .env file
UpdateNext ==
    \/ UpdateSetting
    \/ ExternalEdit
    \/ EnvAccessChanges
    \/ EnvWriteAccessChanges
    \/ EnvFileRemoved

UpdateSpec == LoaderInit /\ [][UpdateNext]_vars

\* add_to_watchlist and remove_from_watchlist calls that run concurrently, each
\* suspended at its awaits
RequestNext ==
    \/ RequestBegins
    \/ RequestStoreDone
    \/ RequestResumes
    \/ RequestFeedDone

RequestSpec == LoaderInit /\ [][RequestNext]_vars

\* the requests and callbacks that change the watchlist and the feed's pairs
ApiNext ==
    \/ AddToWatchlist
    \/ RemoveFromWatchlist
    \/ OnPairsUpdated
    \/ DeleteWatchlistRoute

ApiSpec == LoaderInit /\ [][ApiNext]_vars

(***************************************************************************)
(* Properties                                                              *)
(***************************************************************************)
\* the feed reached Failed: the cap was exceeded, the flag cleared, the loop left
FeedFailed ==
    /\ wsPc = "exit"
    /\ ~is_running
    /\ reconnect_attempts > max_reconnect_attempts

\* C1: after max_reconnect_attempts + 1 consecutive connect() calls that raised while
\* is_running was true, with no connect() returning in between, the feed is Failed:
\* is_running is false and the loop has exited; never more than that many failures
\* accumulate, and once the loop has exited connect() is not called again.
C1_FailedAfterCap ==
    /\ [](consecFails <= max_reconnect_attempts + 1)
    /\ [](consecFails = max_reconnect_attempts + 1 => FeedFailed)
    /\ [][wsPc = "exit" => (wsPc' = "exit" /\ is_running' = is_running)]_vars

C1_Witness == consecFails = max_reconnect_attempts + 1 /\ FeedFailed

\* C2: whenever the feed is Connected reconnect_attempts is 0, and the failures
\* counted toward the cap are only those since the last established connection.
C2_ResetOnConnected ==
    /\ wsPc = "connected" => reconnect_attempts = 0
    /\ reconnect_attempts <= failsSinceConnected

\* C3: the n-th delay slept since the counter was last 0 is min(reconnect_delay * n, 60)
\* for every 1 <= n <= max_reconnect_attempts, and the delays never decrease with n.
C3_BackoffDelay ==
    /\ Len(delays) <= max_reconnect_attempts
    /\ Len(delays) = Min2(reconnect_attempts, max_reconnect_attempts)
    /\ \A n \in 1..Len(delays) :
         delays[n] = (IF reconnect_delay * n < 60 THEN reconnect_delay * n ELSE 60)
    /\ \A n \in 1..(Len(delays) - 1) : delays[n] <= delays[n + 1]
    /\ wsPc = "sleep" =>
         /\ reconnect_attempts \in 1..max_reconnect_attempts
         /\ delay = delays[reconnect_attempts]

C3_Witness ==
    /\ wsPc = "sleep"
    /\ reconnect_delay * reconnect_attempts > 60
    /\ delay = 60
    /\ Len(delays) >= 2

\* the current symbol's check reported a percentage below the threshold
Deficient == checked = "reported" /\ integrity_percentage < 90

\* C4: for a symbol whose integrity check reports a percentage >= 90 no get_kline_data
\* call and no save is issued; a call is issued only for a reported percentage < 90.
C4_NoFetchWhenCovered ==
    /\ (checked = "reported" /\ integrity_percentage >= 90) =>
         (fetchLog = <<>> /\ saveLog = <<>> /\ ldPc # "window")
    /\ (fetchLog # <<>> \/ saveLog # <<>> \/ ldPc = "window") => Deficient

C4_Witness ==
    /\ ldPc = "pause"
    /\ checked = "reported"
    /\ integrity_percentage = 90
    /\ fetchLog = <<>>

DayMs == 24 * 60 * 60 * 1000

CeilDiv(a, b) == (a + b - 1) \div b

\* the sub-windows the claim lists for the range [s, e]
ExpectedWindows(s, e) ==
    IF e > s
    THEN [k \in 1..CeilDiv(e - s, DayMs) |->
            <<s + (k - 1) * DayMs, Min2(s + k * DayMs, e)>>]
    ELSE <<>>

\* C5: the get_kline_data calls for a deficient symbol with range [start_ms, end_ms]
\* are, in order, [start_ms + k*24h, min(start_ms + (k+1)*24h, end_ms)], k = 0, 1, ...:
\* non-empty, at most 24 h long, each starting where the previous ended, from start_ms
\* to end_ms, ceil((end_ms - start_ms) / 24h) of them; 50 hours give 24 h, 24 h, 2 h;
\* an empty or negative range gives none.
C5_SubWindows ==
    /\ (ldPc = "window") =>
         /\ Len(fetchLog) <= Len(ExpectedWindows(start_time_ms, end_time_ms))
         /\ fetchLog = SubSeq(ExpectedWindows(start_time_ms, end_time_ms), 1, Len(fetchLog))
         /\ current_start = (IF fetchLog = <<>> THEN start_time_ms
                             ELSE fetchLog[Len(fetchLog)][2])
    /\ (ldPc = "pause" /\ Deficient) =>
         /\ fetchLog = ExpectedWindows(start_time_ms, end_time_ms)
         /\ (end_time_ms <= start_time_ms) => fetchLog = <<>>
         /\ (end_time_ms > start_time_ms) =>
              /\ Len(fetchLog) = CeilDiv(end_time_ms - start_time_ms, DayMs)
              /\ fetchLog[1][1] = start_time_ms
              /\ fetchLog[Len(fetchLog)][2] = end_time_ms
         /\ (end_time_ms - start_time_ms = 50 * 60 * 60 * 1000) =>
              [k \in 1..Len(fetchLog) |-> fetchLog[k][2] - fetchLog[k][1]]
                  = <<24 * 3600000, 24 * 3600000, 2 * 3600000>>
    /\ \A k \in 1..Len(fetchLog) :
         /\ fetchLog[k][1] < fetchLog[k][2]
         /\ fetchLog[k][2] - fetchLog[k][1] <= DayMs
         /\ k > 1 => fetchLog[k][1] = fetchLog[k - 1][2]

C5_Witness ==
    /\ ldPc = "pause"
    /\ Deficient
    /\ end_time_ms - start_time_ms = 50 * 60 * 60 * 1000
    /\ Len(fetchLog) = 3

\* C6: a failure while an earlier symbol of the snapshot is processed (settings read,
\* integrity check, fetch or save raising) does not keep the later symbols from being
\* processed in the same cycle: the cycle ends only with every symbol of the snapshot
\* processed, and a later symbol found deficient still gets all its sub-windows fetched.
C6_FailureIsolated ==
    /\ firstFailedAt # 0 => ~cycleError
    /\ (ldPc = "wait" /\ firstFailedAt # 0) =>
         /\ Len(processed) = Len(watchlist)
         /\ \A j \in (firstFailedAt + 1)..Len(watchlist) : processed[j] = watchlist[j]
    /\ (ldPc \in {"symbol", "window", "pause"}) => idx <= Len(watchlist)
    /\ (ldPc = "pause" /\ Deficient /\ firstFailedAt \in 1..(idx - 1)
          /\ end_time_ms > start_time_ms) =>
         Len(fetchLog) = CeilDiv(end_time_ms - start_time_ms, DayMs)

C6_Witness ==
    /\ ldPc = "pause"
    /\ idx = 2
    /\ firstFailedAt = 1
    /\ Deficient
    /\ fetchLog # <<>>

\* a pass of periodic_cleanup is over
PassOver == cleanPc # "cleanup" /\ passesBegun

\* C7: every pass of periodic_cleanup calls alert_manager.cleanup_old_data exactly once,
\* after a sleep of one hour, and every pass, raising or not, is followed by another pass.
C7_CleanupEveryPass ==
    /\ [](cleanupCalls <= 1)
    /\ [](PassOver => cleanupCalls = 1)
    /\ [](cleanPc = "cleanup" => (slept = CLEANUP_SLEEP /\ cleanupCalls = 0))
    /\ \A p \in {0, 1} :
         (cleanPc = "cleanup" /\ passParity = p)
             ~> (PassOver /\ passParity = p /\ cleanupCalls = 1)
    /\ \A p \in {0, 1} :
         (PassOver /\ passParity = p) ~> (cleanPc = "cleanup" /\ passParity = 1 - p)

C7_Witness ==
    /\ PassOver
    /\ prevRaised
    /\ cleanupCalls = 1

\* C8: the symbols a cycle processes are, in order, the snapshot get_watchlist returned
\* at its start, which is the stored watchlist of that moment; a symbol added afterwards
\* is not processed in that cycle and, still stored, is processed in the next one.
C8_SnapshotPerCycle ==
    /\ [](ldPc = "symbol" => processed = SubSeq(watchlist, 1, idx - 1))
    /\ [](ldPc \in {"window", "pause"} => processed = SubSeq(watchlist, 1, idx))
    /\ []((ldPc = "wait" /\ ~cycleError) => processed = watchlist)
    /\ [](\A s \in lateAdded : s \notin Range(processed))
    /\ []((ldPc = "wait" /\ ~cycleError) => carried \subseteq Range(processed))
    /\ [][(ldPc = "cycle" /\ ldPc' # "cycle" /\ ~cycleError') =>
            (watchlist' = store_watchlist /\ carried' = lateAdded \cap Range(store_watchlist))]_vars

C8_Witness ==
    /\ \E s \in carried : s \in Range(processed)
    /\ ldPc = "wait"

\* C9: for a backfilled symbol with ANALYSIS_HOURS worth D minutes and OFFSET_MINUTES = O,
\* D >= 0 and O >= 0, the fetched range is [now_ms - (O + D)*60000, now_ms - O*60000].
C9_FetchRange ==
    (ldPc \in {"window", "pause"} /\ Deficient /\ analysis_hours >= 0 /\ offset_minutes >= 0) =>
        /\ start_time_ms = current_time_ms - (offset_minutes + analysis_hours * 60) * 60000
        /\ end_time_ms = current_time_ms - offset_minutes * 60000

\* C10 as stated: a failing integrity check is a cycle-level error: the cycle stops at
\* that symbol and the next cycle starts after 5 minutes.
C10_CheckFailureAborts ==
    (ldPc = "wait" /\ firstCheckFailedAt # 0) =>
        /\ waitSecs = ERROR_SLEEP
        /\ Len(processed) <= firstCheckFailedAt

\* C10 as amended: the wait is 30 minutes unless get_watchlist raised, in which case no
\* symbol was processed and the wait is 5 minutes; a failing integrity check leaves the
\* rest of the snapshot processed and the wait at 30 minutes.
C10_WaitBetweenCycles ==
    ldPc = "wait" =>
        /\ waitSecs = (IF cycleError THEN 300 ELSE 1800)
        /\ cycleError => (processed = <<>> /\ firstCheckFailedAt = 0)
        /\ ~cycleError => Len(processed) = Len(watchlist)

C10_Witness ==
    /\ ldPc = "wait"
    /\ firstCheckFailedAt = 1
    /\ Len(processed) = 2
    /\ waitSecs = 1800

\* C11: once lifespan's shutdown has cleared the running flag, a loop that wakes from
\* its sleep or reaches the top of its loop observes the flag and does not go on, and
\* once the shutdown has completed no connect() and no cleanup call is issued.
C11_LoopsStopOnShutdown ==
    /\ [][(shutdownStarted /\ wsPc = "while") => wsPc' # "connect"]_vars
    /\ [][(shutdownStarted /\ cleanPc = "sleep") => cleanPc' # "cleanup"]_vars
    /\ [][shutPc = "done" => cleanupCalls' <= cleanupCalls]_vars
    /\ [][shutPc = "done" => (wsPc' = "connect" => wsPc = "connect")]_vars

\* position of resource r in the order of acquisition
AcquiredAt(r) == CHOOSE i \in 1..Len(AcquireOrder) : AcquireOrder[i] = r

\* C12: on shutdown the running flag is cleared and the loops have stopped before any
\* resource is released, and the resources are released in the reverse of the order
\* of their acquisition.
C12_ReverseRelease ==
    /\ released # <<>> => (shutdownStarted /\ ~is_running /\ wsPc = "exit")
    /\ \A i, j \in 1..Len(released) :
         i < j => AcquiredAt(released[i]) > AcquiredAt(released[j])

\* C14: the starts of two consecutive passes of periodic_cleanup are exactly 3600
\* seconds apart, however long the earlier pass's cleanup took and however it ended.
C14_HourlyFromStart == startGap # 0 => startGap = 3600

\* a step in which connect() raises
RaiseStep == lastEnd # "raised" /\ lastEnd' = "raised"

\* C17: a connect() attempt that follows the end of a previous connect() is preceded
\* by a backoff sleep after a counted failure (n >= 1), and the loop is left without
\* the cap being exceeded only when shutdown cleared the running flag.
C17_StateMachineEdges ==
    /\ [][(wsPc = "while" /\ wsPc' = "connect") =>
            (lastEnd \in {"none", "slept"}
             /\ (lastEnd = "slept" => reconnect_attempts >= 1))]_vars
    /\ []((wsPc = "exit" /\ ~FeedFailed) => shutdownStarted)

\* C18: the loop is left only after shutdown cleared is_running or after
\* reconnect_attempts exceeded max_reconnect_attempts; any other raise of connect() is
\* followed by a backoff sleep, and the sleep by another connect() attempt unless the
\* flag was cleared meanwhile.
C18_OnlyCapIsFatal ==
    /\ [](wsPc = "exit" =>
            (shutdownStarted \/ reconnect_attempts > max_reconnect_attempts))
    /\ [][(RaiseStep /\ is_running /\ reconnect_attempts < max_reconnect_attempts) =>
            (wsPc' = "sleep" /\ delay' > 0 /\ is_running')]_vars
    /\ [][wsPc = "sleep" => wsPc' \in {"sleep", "while"}]_vars
    /\ [][(wsPc = "while" /\ is_running) => wsPc' \in {"while", "connect"}]_vars
    /\ (wsPc = "sleep") ~> (wsPc = "connect" \/ ~is_running)

C18_Witness ==
    /\ wsPc = "connect"
    /\ lastEnd = "slept"
    /\ reconnect_attempts = max_reconnect_attempts
    /\ ~shutdownStarted

\* C19: reconnect_attempts stays within 0..max_reconnect_attempts + 1 and changes only
\* by a reset to 0 or by +1 in a step in which connect() raises while is_running is
\* true, each such step adding exactly 1; when connect() raises with is_running false
\* the counter is unchanged, no sleep is set up and the loop is left without another
\* connect().
C19_AttemptCounter ==
    /\ [](reconnect_attempts \in 0..(max_reconnect_attempts + 1))
    /\ [][reconnect_attempts' # reconnect_attempts =>
            \/ reconnect_attempts' = 0
            \/ (reconnect_attempts' = reconnect_attempts + 1 /\ RaiseStep /\ is_running)]_vars
    /\ [][(RaiseStep /\ is_running) => reconnect_attempts' = reconnect_attempts + 1]_vars
    /\ [][(RaiseStep /\ ~is_running) =>
            (reconnect_attempts' = reconnect_attempts /\ wsPc' = "while"
             /\ delay' = delay /\ delays' = delays)]_vars
    /\ [][(wsPc = "while" /\ ~is_running) => wsPc' \in {"while", "exit"}]_vars
    /\ [][(wsPc = "exit") => (wsPc' = "exit" /\ reconnect_attempts' = reconnect_attempts)]_vars

C19_Witness ==
    /\ wsPc = "exit"
    /\ lastEnd = "raised"
    /\ shutdownStarted
    /\ reconnect_attempts \in 1..max_reconnect_attempts

\* C16: the values of ANALYSIS_HOURS and OFFSET_MINUTES a symbol is processed with are
\* those of the .env file as it is when the loop reads them, whenever the file can be
\* read then: an earlier change of the file is never hidden by the cache.
C16_PolledPerCycle ==
    (ldPc \in {"window", "pause"} /\ checked = "reported" /\ env_readable) =>
        /\ analysis_hours = Typed(env_file["ANALYSIS_HOURS"])
        /\ offset_minutes = Typed(env_file["OFFSET_MINUTES"])

\* C13: a symbol that enters the store's watchlist by an add call enters trading_pairs
\* and is subscribed, and nothing else is; after a remove call for a symbol has been
\* served the symbol is in neither the store's watchlist nor trading_pairs nor the
\* subscriptions; on_pairs_updated issues no subscribe or unsubscribe for an empty
\* set; and no such step moves the feed, backfill or maintenance loop.
C13_MutationsPropagate ==
    /\ [][\A s \in Symbols :
            (s \notin Range(store_watchlist) /\ s \in Range(store_watchlist')) =>
                (trading_pairs' = trading_pairs \cup {s}
                 /\ subscribed' = subscribed \cup {s})]_vars
    /\ [](removeCalled # "" =>
            (removeCalled \notin Range(store_watchlist)
             /\ removeCalled \notin trading_pairs
             /\ removeCalled \notin subscribed))
    /\ [](\A c \in hookIssued : c[2] # {})
    /\ [][(store_watchlist' # store_watchlist \/ trading_pairs' # trading_pairs
            \/ subscribed' # subscribed \/ removeCalled' # removeCalled) =>
            UNCHANGED <<wsPc, ldPc, cleanPc>>]_vars

\* C15: whatever raised, the loop goes on: every wait is of 1800 or 300 seconds and
\* ends in a new cycle, after any failure a new cycle begins, cycles begin again and
\* again, and a cycle in which a symbol or a sub-window failed still processes every
\* symbol of its snapshot.
C15_LoaderNeverStops ==
    /\ [](ldPc \in {"cycle", "symbol", "window", "pause", "wait"})
    /\ [](ldPc = "wait" => waitSecs \in {1800, 300})
    /\ [](firstFailedAt # 0 => (~cycleError /\ ldPc # "cycle"))
    /\ []((ldPc = "wait" /\ firstFailedAt # 0) => Len(processed) = Len(watchlist))
    /\ (firstFailedAt # 0 \/ cycleError) ~> (ldPc = "cycle")
    /\ []<>(ldPc = "cycle")
    /\ []<>(ldPc = "wait")

C15_Witness ==
    /\ ldPc = "wait"
    /\ cycleError
    /\ waitSecs = 300

\* C20: within the backfill of one symbol no sub-window is requested twice; after a
\* get_kline_data call that raised nothing is saved for its sub-window and the loop is
\* past it; and the backfill ends with all sub-windows of the range requested,
\* whichever of them raised.
C20_NoRetrySamePass ==
    /\ \A i, j \in 1..Len(fetchLog) : i < j => fetchLog[i][1] < fetchLog[j][1]
    /\ (fetchRaised \/ raisedBefore) => fetchLog # <<>>
    /\ raisedBefore => Len(fetchLog) >= 2
    /\ fetchRaised => saveLog = <<>>
    /\ (ldPc = "window" /\ fetchLog # <<>>) => current_start = fetchLog[Len(fetchLog)][2]
    /\ (ldPc = "pause" /\ Deficient) =>
         Len(fetchLog) = Len(ExpectedWindows(start_time_ms, end_time_ms))

C20_Witness ==
    /\ ldPc = "pause"
    /\ Deficient
    /\ Len(fetchLog) = 3
    /\ raisedBefore
    /\ ~fetchRaised
    /\ saveLog # <<>>

\* the candle the claim describes for a returned record
CandleOf(record) ==
    [start |-> record.timestamp, end |-> record.timestamp + 60000,
     open |-> record.open, high |-> record.high, low |-> record.low,
     close |-> record.close, volume |-> record.volume]

\* save_historical_kline_data calls issued for the records of the last sub-window
SaveCalls == Len(saveLog) + (IF saveRaised THEN 1 ELSE 0)

\* C21 as stated: for every record a sub-window fetch returned the save is called
\* exactly once, with start = t, end = t + 60000 and the record's values, in the order
\* of the records.
C21_EveryRecordSaved ==
    /\ SaveCalls = Len(klines)
    /\ \A j \in 1..Len(saveLog) : saveLog[j] = CandleOf(klines[j])

\* C21 as amended: the records are saved once each, in the order returned, with
\* start = t, end = t + 60000 and their values unchanged, up to the first save that
\* raises; that save ends the sub-window, the records after it get no save call, and
\* when no save raises every returned record is saved.
C21_SavedUntilFailure ==
    /\ Len(saveLog) <= Len(klines)
    /\ \A j \in 1..Len(saveLog) : saveLog[j] = CandleOf(klines[j])
    /\ \A j \in 1..Len(saveLog) : saveLog[j].end - saveLog[j].start = 60000
    /\ ~saveRaised => Len(saveLog) = Len(klines)
    /\ saveRaised => SaveCalls <= Len(klines)
    /\ fetchRaised => (klines = <<>> /\ saveLog = <<>> /\ ~saveRaised)
    /\ Len(klines) <= MaxKlines

C21_Witness ==
    /\ Len(klines) = 2
    /\ saveRaised
    /\ saveLog = <<>>
    /\ ldPc = "window"

\* C22: in a pass in which alert_manager.cleanup_old_data raised the retention step
\* of db_queries is still executed, once, as in a pass in which it returned.
C22_SiblingsStillRun ==
    /\ retentionReads <= 1
    /\ (PassOver /\ ~passRaised) => retentionReads = 1
    /\ (PassOver /\ passRaised) => (cleanupCalls = 1 /\ retentionReads = 1)

\* the .env file cannot be read: it is missing, or reading it fails
ConfigOutage == ~env_exists \/ ~env_readable

\* the values get_setting may fall back to for key: the typed last-known value of the
\* cache and the typed default
FallbackValues(key) ==
    (IF settings_cache[key] # Absent THEN {Typed(settings_cache[key])} ELSE {})
        \cup {Typed(default_settings[key])}

\* a step in which the loop reads the settings for the next symbol of the snapshot
SettingsReadStep == ldPc = "symbol" /\ processed' # processed

\* C23: load_settings/get_setting never raise; a symbol whose settings are read while
\* the .env file cannot be read gets, for every key, the last-known value of the cache
\* or the default, and its check and window are computed from them.
C23_ConfigNeverFatal ==
    /\ [](~loadRaised)
    /\ [][(SettingsReadStep /\ ConfigOutage /\ checked' = "reported") =>
            /\ analysis_hours' \in FallbackValues("ANALYSIS_HOURS")
            /\ offset_minutes' \in FallbackValues("OFFSET_MINUTES")]_vars
    /\ [][(SettingsReadStep /\ ConfigOutage /\ checked' = "raised") =>
            firstCheckFailedAt' # 0]_vars

\* a connect() call of bybit_websocket_loop is in flight
ConnectInFlight == wsPc \in {"connect", "connected"}

\* C24: the one loop task has at most one connect() in flight, a connect() call
\* starts only at the top of bybit_websocket_loop with the running flag set, and while
\* the flag holds and the feed is not Failed the loop is in a connect(), in a
\* backoff sleep or at its top, from where a connect() follows unless the flag is
\* cleared.
C24_OneConnection ==
    /\ []((is_running /\ ~FeedFailed) =>
            (ConnectInFlight \/ wsPc = "sleep" \/ wsPc = "while"))
    /\ [](wsPc = "sleep" => (delay > 0 /\ ~ConnectInFlight))
    /\ [][(~ConnectInFlight /\ ConnectInFlight') => (wsPc = "while" /\ is_running)]_vars
    /\ [][(ConnectInFlight /\ ~ConnectInFlight') => wsPc' \in {"while", "sleep", "exit"}]_vars
    /\ (is_running /\ wsPc = "sleep") ~> (ConnectInFlight \/ ~is_running)
    /\ (is_running /\ wsPc = "while") ~> (ConnectInFlight \/ ~is_running)

C24_Witness ==
    /\ is_running
    /\ wsPc = "connected"
    /\ lastEnd = "slept"
    /\ reconnect_attempts >= 2

\* no add_to_watchlist or remove_from_watchlist call is in flight
AllRequestsDone == \A r \in 1..MaxRequests : requests[r] = NoRequest

\* C25: whenever every add_to_watchlist and remove_from_watchlist call has completed,
\* a symbol is in trading_pairs exactly if it is in the stored watchlist, and the
\* subscriptions are those of trading_pairs.
C25_PairsFollowWatchlist ==
    AllRequestsDone =>
        /\ trading_pairs = Range(store_watchlist)
        /\ subscribed = trading_pairs

\* a step in which reload_settings() runs
ReloadStep == reloadParity' # reloadParity

\* the callbacks of the log are those registered, each once, in registration order
AllNotified(log, callbacks) ==
    /\ Len(log) = Len(callbacks)
    /\ \A i \in 1..Len(callbacks) : log[i].callback = callbacks[i]

UpdateReturned == updateLog'.calls # updateLog.calls /\ updateLog'.outcome = "returned"

\* load_settings() after the cache was emptied, as reload_settings() calls it
LoadAfterInvalidation == load_settings([Globals EXCEPT !.cache = EmptyDict])

\* get_setting(key) on the dict of that load_settings() call gives the typed value of
\* the string value
Reads(loaded, key, value) ==
    /\ ~loaded.raised
    /\ loaded.ret[key] # Absent
    /\ get_setting(loaded.ret, key, Absent) = Typed(value)

\* C27: after update_setting(k, v) returns, get_setting(k) returns the typed value of
\* str(v) at once and after any later emptying of the cache, every other key keeps the
\* value it had before the update, and the cache and the rewritten file agree on all
\* keys.
C27_UpdateKept ==
    [][UpdateReturned =>
        /\ Reads(FirstLoad', updateLog'.key, updateLog'.value)
        /\ Reads(SecondLoad', updateLog'.key, updateLog'.value)
        /\ Reads(LoadAfterInvalidation', updateLog'.key, updateLog'.value)
        /\ \A other \in DOMAIN DEFAULT_SETTINGS \ {updateLog'.key} :
              /\ FirstLoad'.ret[other] = FirstLoad.ret[other]
              /\ SecondLoad'.ret[other] = FirstLoad.ret[other]
              /\ LoadAfterInvalidation'.ret[other] = FirstLoad.ret[other]
        /\ settings_cache' = env_file']_vars

====
